---- MODULE Spec2Model ----
(***************************************************************************)
(* Model of noise-models-4-mobileqkd.py: the per-symbol noise channel      *)
(* (apply_noise), the metrics (qber, shannon_entropy), the adaptive        *)
(* amplification rule and the sweep of unified_comparison_all_models.      *)
(*                                                                         *)
(* Numbers.  Probabilities and uniform draws are exact rationals with the  *)
(* common denominator Scale: np.linspace(0.01, 0.3, 12)[j] is              *)
(* (11 + 29*j)/1100.  A confidence or entropy is a fixed-point number      *)
(* with denominator One.  A retained fraction is a percentage.             *)
(* Keys are sequences of the symbols "0" and "1".                          *)
(***************************************************************************)
EXTENDS Integers, Sequences, FiniteSets, TLC

VARIABLES
    frame,            \* the activation of a function called on its own
    pc,               \* control point of unified_comparison_all_models
    noise_models,     \* global list of model names (line 16)
    noise_range,      \* the probability grid (line 74)
    original_key,     \* global key (line 13)
    mi,               \* index of `model` in the outer loop (line 79)
    pj,               \* index of `p` in the inner loop (line 81)
    adaps,            \* line 80
    adaptive_matrix,  \* line 76
    model_gains,      \* line 77: a dict, kept as insertion-ordered pairs
    nk, q, ent, ada,  \* locals of the inner loop body (lines 82-85)
    stats             \* lines 91-99: aggregates, or the exception raised

vars == <<frame, pc, noise_models, noise_range, original_key, mi, pj, adaps,
          adaptive_matrix, model_gains, nk, q, ent, ada, stats>>

sweepVars == <<pc, noise_models, noise_range, original_key, mi, pj, adaps,
               adaptive_matrix, model_gains, nk, q, ent, ada, stats>>

-----------------------------------------------------------------------------
(* Bounds of the model. *)

\* longest key given to a function called on its own
MaxLen == 3
\* longest model list of a sweep
MaxModels == 2
\* number of grid points a sweep visits
GridLen == 1
\* length of original_key in a sweep (512 in the program)
KeyLen == 26
\* most positions of one key whose uniform draw falls below p in a sweep
MaxDisturbed == 3

-----------------------------------------------------------------------------
(* Numeric representation. *)

\* denominator of probabilities and uniform draws
Scale == 1100

\* denominator of entropies and confidences: 0.9, 0.75, 0.6 and all
\* 2^-i (i <= 13) are whole numbers of 1/One
One == 40960

\* mantissa denominator of the base-2 logarithm
Mant == 16384

\* fractional bits of the base-2 logarithm
LogBits == 13

Min(a, b) == IF a <= b THEN a ELSE b

RECURSIVE Pow2(_)
Pow2(n) == IF n = 0 THEN 1 ELSE 2 * Pow2(n - 1)

Bits == {"0", "1"}

RECURSIVE KeysOfLen(_)
KeysOfLen(n) ==
    IF n = 0 THEN {<<>>}
    ELSE {Append(k, b) : k \in KeysOfLen(n - 1), b \in Bits}

KeysUpTo(n) == UNION {KeysOfLen(m) : m \in 0..n}

-----------------------------------------------------------------------------
(* Lines 16-21: the twelve model names, in list order. *)

AllModels ==
    << "Bit Flip", "Phase Flip", "Bit-Phase Flip", "Depolarizing",
       "Amplitude Damping", "Generalized Amplitude Damping", "Phase Damping",
       "Non-Markovian", "Collective Correlated", "Gaussian Bosonic",
       "Polarization Mode Dispersion", "Photon Number Splitting" >>

Recognized == {AllModels[n] : n \in 1..Len(AllModels)}

\* names the if/elif chain of apply_noise does not match (string equality is
\* case-sensitive)
Unrecognized == {"Unknown", "bit flip", ""}

\* One position's random values: rand = np.random.rand() (line 27), choice =
\* np.random.choice(['0','1']) and g = np.random.normal(0, 0.1); the last
\* two are read only by the rules that draw them.
DrawSet == [rand : {0, 5, Scale - 1}, choice : Bits, g : {-220, 0, 220}]

-----------------------------------------------------------------------------
(* Lines 28-55: the text one loop iteration appends to `noisy`, for the     *)
(* symbol `bit` at 0-based position i.                                       *)

\* a flip that also fires when rand equals p
FlipRuleLeq(bit, rand, p) ==
    <<IF bit = "0" /\ rand <= p THEN "1"
      ELSE IF bit = "1" /\ rand <= p THEN "0" ELSE bit>>

\* lines 29, 33, 47
FlipRule(bit, rand, p) ==
    <<IF bit = "0" /\ rand < p THEN "1"
      ELSE IF bit = "1" /\ rand < p THEN "0" ELSE bit>>

\* a branch that appends nothing
PassThroughDrops(bit) == <<>>

\* lines 31, 43, 55
PassThrough(bit) == <<bit>>

\* line 35
DepolarizingRule(bit, rand, choice, p) == <<IF rand < p THEN choice ELSE bit>>

\* line 37
AmplitudeDampingRule(bit, rand, p) ==
    <<IF bit = "1" /\ rand < p THEN "0" ELSE bit>>

\* lines 39-41: rand < p*0.6 and rand < p*0.4
GeneralizedDampingRule(bit, rand, p) ==
    IF bit = "1" /\ 10 * rand < 6 * p THEN <<"0">>
    ELSE IF bit = "0" /\ 10 * rand < 4 * p THEN <<"1">>
    ELSE <<bit>>

\* line 45
NonMarkovianRule(bit, i, rand, choice, p) ==
    <<IF rand < p /\ i % 2 = 0 THEN choice ELSE bit>>

\* line 49: g + p > 0.15
GaussianRule(bit, g, choice, p) ==
    <<IF 20 * (g + p) > 3 * Scale THEN choice ELSE bit>>

\* line 51: rand < p/2
PolarizationRule(bit, rand, p) ==
    <<IF bit = "0" /\ 2 * rand < p THEN "1"
      ELSE IF bit = "1" /\ 2 * rand < p THEN "0" ELSE bit>>

\* a splitting rule that turns a 1 into a 0
PhotonSplittingRuleFlips(bit, rand, p) ==
    <<IF bit = "1" /\ rand < p THEN "0" ELSE bit>>

\* line 53
PhotonSplittingRule(bit, rand, p) ==
    <<IF bit = "1" /\ rand < p THEN "1" ELSE bit>>

\* lines 28-55: the if/elif chain
NoiseRule(model, bit, i, p, d) ==
    IF model = "Bit Flip" THEN FlipRule(bit, d.rand, p)
    ELSE IF model = "Phase Flip" THEN PassThrough(bit)
    ELSE IF model = "Bit-Phase Flip" THEN FlipRule(bit, d.rand, p)
    ELSE IF model = "Depolarizing"
        THEN DepolarizingRule(bit, d.rand, d.choice, p)
    ELSE IF model = "Amplitude Damping"
        THEN AmplitudeDampingRule(bit, d.rand, p)
    ELSE IF model = "Generalized Amplitude Damping"
        THEN GeneralizedDampingRule(bit, d.rand, p)
    ELSE IF model = "Phase Damping" THEN PassThrough(bit)
    ELSE IF model = "Non-Markovian"
        THEN NonMarkovianRule(bit, i, d.rand, d.choice, p)
    ELSE IF model = "Collective Correlated" THEN FlipRule(bit, d.rand, p)
    ELSE IF model = "Gaussian Bosonic"
        THEN GaussianRule(bit, d.g, d.choice, p)
    ELSE IF model = "Polarization Mode Dispersion"
        THEN PolarizationRule(bit, d.rand, p)
    ELSE IF model = "Photon Number Splitting"
        THEN PhotonSplittingRule(bit, d.rand, p)
    ELSE PassThrough(bit)

\* Lines 24-56: apply_noise with the draws of all positions given.
RECURSIVE NoiseLoop(_, _, _, _, _, _)
NoiseLoop(key, p, model, draws, i, noisy) ==
    IF i = Len(key) THEN noisy
    ELSE NoiseLoop(key, p, model, draws, i + 1,
                   noisy \o NoiseRule(model, key[i + 1], i, p, draws[i + 1]))

apply_noise(key, p, model, draws) == NoiseLoop(key, p, model, draws, 0, <<>>)

-----------------------------------------------------------------------------
(* Lines 59-70: the metrics and the amplification rule. *)

RECURSIVE Mismatches(_, _, _)
Mismatches(a, b, n) ==
    IF n = 0 THEN 0
    ELSE Mismatches(a, b, n - 1) + (IF a[n] # b[n] THEN 1 ELSE 0)

\* Lines 59-60.  zip stops at the shorter key; the sum is divided by
\* len(orig).  The quotient is kept as the fraction num/den.
qber(orig, noisy) ==
    IF Len(orig) = 0
    THEN [error |-> "ZeroDivisionError", num |-> 0, den |-> 1]
    ELSE [error |-> "none",
          num |-> Mismatches(orig, noisy, Min(Len(orig), Len(noisy))),
          den |-> Len(orig)]

\* equality of two results of qber as Python compares floats
SameRate(x, y) ==
    /\ x.error = y.error
    /\ x.error = "none" => x.num * y.den = y.num * x.den

\* largest e with n * 2^e <= d, for 0 < n <= d
RECURSIVE FloorLog2(_, _, _)
FloorLog2(d, n, e) ==
    IF n * Pow2(e + 1) <= d THEN FloorLog2(d, n, e + 1) ELSE e

\* the fractional bits of log2(x / Mant), Mant <= x < 2*Mant, by repeated
\* squaring
RECURSIVE LogFraction(_, _)
LogFraction(x, b) ==
    IF b > LogBits THEN 0
    ELSE LET y == (x * x) \div Mant
         IN  IF y >= 2 * Mant
             THEN One \div Pow2(b) + LogFraction(y \div 2, b + 1)
             ELSE LogFraction(y, b + 1)

\* -np.log2(n/d) = log2(d/n), for 0 < n <= d, in units of 1/One
NegLog2(n, d) ==
    LET e == FloorLog2(d, n, 0)
    IN  e * One + LogFraction((d * Mant) \div (n * Pow2(e)), 1)

\* Lines 62-64, for q = num/den in [0, 1], in units of 1/One.
shannon_entropy(num, den) ==
    IF num = 0 \/ num = den THEN 0
    ELSE (num * NegLog2(num, den) + (den - num) * NegLog2(den - num, den))
             \div den

\* thresholds that exclude the confidence equal to them
AdaptiveStrict(e) ==
    IF 10 * e > 9 * One THEN 100
    ELSE IF 4 * e > 3 * One THEN 75
    ELSE IF 5 * e > 3 * One THEN 60
    ELSE 50

\* a lowest fraction below the static half
AdaptiveLowFloor(e) ==
    IF 10 * e >= 9 * One THEN 100
    ELSE IF 4 * e >= 3 * One THEN 75
    ELSE IF 5 * e >= 3 * One THEN 60
    ELSE 40

\* Lines 66-70: the retained fraction, in percent.
adaptive_amplification(e) ==
    IF 10 * e >= 9 * One THEN 100
    ELSE IF 4 * e >= 3 * One THEN 75
    ELSE IF 5 * e >= 3 * One THEN 60
    ELSE 50

-----------------------------------------------------------------------------
(* The sweep is idle while a function is called on its own. *)

NoFrame == [fn |-> "none"]

Idle ==
    /\ pc = "idle"
    /\ noise_models = <<>>
    /\ noise_range = <<>>
    /\ original_key = <<>>
    /\ mi = 0
    /\ pj = 0
    /\ adaps = <<>>
    /\ adaptive_matrix = <<>>
    /\ model_gains = <<>>
    /\ nk = <<>>
    /\ q = [error |-> "none", num |-> 0, den |-> 1]
    /\ ent = 0
    /\ ada = 0
    /\ stats = [error |-> "none"]

-----------------------------------------------------------------------------
(* apply_noise, qber and adaptive_amplification called on their own. *)

\* p = 0, 0.01, 0.3 and 1
ProbSet == {0, 11, 330, Scale}

\* confidences at, just below and just above each threshold, and the ends
ConfSet ==
    {0, 12000, One} \cup
    {t + e : t \in {(9 * One) \div 10, (3 * One) \div 4, (3 * One) \div 5},
             e \in {-1, 0, 1}}

\* a call apply_noise(key, p, model), before the loop of line 26
NoiseCalls ==
    [fn : {"apply_noise"}, key : KeysUpTo(MaxLen), p : ProbSet,
     model : Recognized \cup Unrecognized, i : {0}, noisy : {<<>>},
     gpos : {FALSE}, at : {"loop"}]

\* the calls qber(orig, noisy) and qber(noisy, orig)
QberCalls ==
    [fn : {"qber"}, orig : KeysUpTo(MaxLen), noisy : KeysUpTo(MaxLen),
     at : {"call"}]

\* the calls adaptive_amplification(c1) and adaptive_amplification(c2)
AdaptiveCalls ==
    [fn : {"adaptive_amplification"}, c1 : ConfSet, c2 : ConfSet,
     at : {"call"}]

InitUnits ==
    /\ frame \in NoiseCalls \cup QberCalls \cup AdaptiveCalls
    /\ Idle

\* Lines 26-55: one iteration of the loop of apply_noise.  gpos records
\* whether a normal sample drawn so far was positive.
NoiseStep ==
    /\ frame.fn = "apply_noise"
    /\ frame.at = "loop"
    /\ frame.i < Len(frame.key)
    /\ \E d \in DrawSet :
         frame' = [frame EXCEPT
                     !.noisy = @ \o NoiseRule(frame.model,
                                              frame.key[frame.i + 1],
                                              frame.i, frame.p, d),
                     !.i = @ + 1,
                     !.gpos = @ \/ (frame.model = "Gaussian Bosonic" /\ d.g > 0)]
    /\ UNCHANGED sweepVars

\* Line 56.
NoiseReturn ==
    /\ frame.fn = "apply_noise"
    /\ frame.at = "loop"
    /\ frame.i = Len(frame.key)
    /\ frame' = [frame EXCEPT !.at = "return"]
    /\ UNCHANGED sweepVars

\* Lines 59-60, for the two orders of the arguments.
QberCall ==
    /\ frame.fn = "qber"
    /\ frame.at = "call"
    /\ frame' = [fn |-> "qber", orig |-> frame.orig, noisy |-> frame.noisy,
                 at |-> "return",
                 result |-> qber(frame.orig, frame.noisy),
                 swapped |-> qber(frame.noisy, frame.orig)]
    /\ UNCHANGED sweepVars

\* Lines 66-70, for two confidences.
AdaptiveCall ==
    /\ frame.fn = "adaptive_amplification"
    /\ frame.at = "call"
    /\ frame' = [fn |-> "adaptive_amplification", c1 |-> frame.c1,
                 c2 |-> frame.c2, at |-> "return",
                 r1 |-> adaptive_amplification(frame.c1),
                 r2 |-> adaptive_amplification(frame.c2)]
    /\ UNCHANGED sweepVars

NextUnits == NoiseStep \/ NoiseReturn \/ QberCall \/ AdaptiveCall

SpecUnits == InitUnits /\ [][NextUnits]_vars

-----------------------------------------------------------------------------
(* Lines 73-99: the sweep. *)

\* line 12
key_length == KeyLen

\* line 75
static_baseline == key_length \div 2

\* line 74: the first n points of np.linspace(0.01, 0.3, 12)
Linspace(n) == [j \in 1..n |-> 11 + 29 * (j - 1)]

\* a retained count rounded up instead of truncated
RetainedBitsCeil(fraction) == (key_length * fraction + 99) \div 100

\* line 85: int(key_length * fraction), fraction in percent
RetainedBits(fraction) == (key_length * fraction) \div 100

RECURSIVE Sum(_)
Sum(s) == IF s = <<>> THEN 0 ELSE Head(s) + Sum(Tail(s))

\* a float that is either nan or the fraction num/den
Nan == [nan |-> TRUE, num |-> 0, den |-> 1]
Float(n, d) == [nan |-> FALSE, num |-> n, den |-> d]

\* a > b and a < b on floats: false when either side is nan
Greater(a, b) == ~a.nan /\ ~b.nan /\ a.num * b.den > b.num * a.den
Less(a, b) == Greater(b, a)

\* np.mean of a one-dimensional array: nan for an empty one
Mean(s) == IF s = <<>> THEN Nan ELSE Float(Sum(s), Len(s))

\* line 88: np.mean(np.array(adaps) - static_baseline)
Gain(row) == Mean([j \in 1..Len(row) |-> row[j] - static_baseline])

\* model_gains[model] = gain on an insertion-ordered dict
RECURSIVE DictSet(_, _, _)
DictSet(dict, key, val) ==
    IF dict = <<>> THEN <<[model |-> key, gain |-> val]>>
    ELSE IF Head(dict).model = key
         THEN <<[model |-> key, gain |-> val]>> \o Tail(dict)
         ELSE <<Head(dict)>> \o DictSet(Tail(dict), key, val)

\* max that keeps the last of several equal maxima
RECURSIVE ArgMaxLast(_)
ArgMaxLast(dict) ==
    IF Len(dict) = 1 THEN dict[1]
    ELSE LET best == ArgMaxLast(SubSeq(dict, 1, Len(dict) - 1))
             item == dict[Len(dict)]
         IN  IF ~Less(item.gain, best.gain) THEN item ELSE best

\* line 96: max(model_gains, key=model_gains.get) keeps the first item and
\* replaces it only by a later item whose gain is greater
RECURSIVE ArgMax(_)
ArgMax(dict) ==
    IF Len(dict) = 1 THEN dict[1]
    ELSE LET best == ArgMax(SubSeq(dict, 1, Len(dict) - 1))
             item == dict[Len(dict)]
         IN  IF Greater(item.gain, best.gain) THEN item ELSE best

\* line 97: min(model_gains, key=model_gains.get)
RECURSIVE ArgMin(_)
ArgMin(dict) ==
    IF Len(dict) = 1 THEN dict[1]
    ELSE LET best == ArgMin(SubSeq(dict, 1, Len(dict) - 1))
             item == dict[Len(dict)]
         IN  IF Less(item.gain, best.gain) THEN item ELSE best

Column(matrix, j) == [n \in 1..Len(matrix) |-> matrix[n][j]]

RECURSIVE SeqMin(_)
SeqMin(s) == IF Len(s) = 1 THEN s[1] ELSE Min(Head(s), SeqMin(Tail(s)))

RECURSIVE SeqMax(_)
SeqMax(s) ==
    IF Len(s) = 1 THEN s[1]
    ELSE LET m == SeqMax(Tail(s)) IN IF Head(s) >= m THEN Head(s) ELSE m

\* line 114: noise_models.index(name)
RECURSIVE IndexOf(_, _)
IndexOf(list, name) ==
    IF Head(list) = name THEN 1 ELSE 1 + IndexOf(Tail(list), name)

\* the draws of one call of apply_noise in a sweep: the first m positions
\* draw `low`, the others draw values that disturb under no rule
Quiet == [rand |-> Scale - 1, choice |-> "0", g |-> -220]

LowDraws == [rand : {0}, choice : Bits, g : {220}]

SweepDraws ==
    {[n \in 1..key_length |-> Quiet]} \cup
    {[n \in 1..key_length |-> IF n <= m THEN low ELSE Quiet] :
        m \in 1..MaxDisturbed, low \in LowDraws}

\* the keys swept: 0101... and 1010...
Alternating(first) ==
    [n \in 1..key_length |->
        IF n % 2 = 1 THEN first ELSE IF first = "0" THEN "1" ELSE "0"]

SweepKeys == {Alternating("0"), Alternating("1")}

\* the lists swept: runs of consecutive models of the list of line 16
ModelLists ==
    {SubSeq(AllModels, w[1], w[1] + w[2] - 1) :
        w \in {v \in (1..Len(AllModels)) \X (1..MaxModels) :
                  v[1] + v[2] - 1 <= Len(AllModels)}}

SweepStart ==
    /\ frame = NoFrame
    /\ pc = "loop"
    /\ mi = 1
    /\ pj = 1
    /\ adaps = <<>>
    /\ adaptive_matrix = <<>>
    /\ model_gains = <<>>
    /\ nk = <<>>
    /\ q = [error |-> "none", num |-> 0, den |-> 1]
    /\ ent = 0
    /\ ada = 0
    /\ stats = [error |-> "none"]

Init ==
    /\ noise_models \in ModelLists
    /\ noise_range = Linspace(GridLen)
    /\ original_key \in SweepKeys
    /\ SweepStart

\* line 80 empties adaps when the outer loop takes a model
Row == IF pj = 1 THEN <<>> ELSE adaps

\* Lines 81-86: one iteration of the inner loop.
SweepPoint ==
    /\ pc = "loop"
    /\ mi <= Len(noise_models)
    /\ pj <= Len(noise_range)
    /\ \E draws \in SweepDraws :
         LET nk1 == apply_noise(original_key, noise_range[pj],
                                noise_models[mi], draws)
             q1 == qber(original_key, nk1)
             ent1 == One - shannon_entropy(q1.num, q1.den)
             ada1 == RetainedBits(adaptive_amplification(ent1))
         IN  /\ nk' = nk1
             /\ q' = q1
             /\ ent' = ent1
             /\ ada' = ada1
             /\ adaps' = Append(Row, ada1)
    /\ pj' = pj + 1
    /\ UNCHANGED <<frame, pc, noise_models, noise_range, original_key, mi,
                   adaptive_matrix, model_gains, stats>>

\* Lines 87-88, and the outer loop taking the next model.
SweepModel ==
    /\ pc = "loop"
    /\ mi <= Len(noise_models)
    /\ pj > Len(noise_range)
    /\ adaps' = Row
    /\ adaptive_matrix' = Append(adaptive_matrix, Row)
    /\ model_gains' = DictSet(model_gains, noise_models[mi], Gain(Row))
    /\ mi' = mi + 1
    /\ pj' = 1
    /\ UNCHANGED <<frame, pc, noise_models, noise_range, original_key,
                   nk, q, ent, ada, stats>>

\* Lines 90-99.  Of an array with no rows, mean(axis=0) is nan and
\* min(axis=0) raises ValueError; with rows and no columns the three
\* reductions are empty arrays.
Aggregate ==
    /\ pc = "loop"
    /\ mi > Len(noise_models)
    /\ IF adaptive_matrix = <<>>
       THEN /\ stats' = [error |-> "ValueError", mean_adaptive |-> Nan]
            /\ pc' = "raised"
       ELSE LET cols == 1..Len(noise_range)
                best == ArgMax(model_gains)
                worst == ArgMin(model_gains)
            IN  /\ stats' =
                     [error |-> "none",
                      mean_adaptive |->
                          [j \in cols |-> Mean(Column(adaptive_matrix, j))],
                      min_adaptive |->
                          [j \in cols |-> SeqMin(Column(adaptive_matrix, j))],
                      max_adaptive |->
                          [j \in cols |-> SeqMax(Column(adaptive_matrix, j))],
                      best_model |-> best.model,
                      worst_model |-> worst.model,
                      best_gain |-> best.gain,
                      worst_gain |-> worst.gain]
                /\ pc' = "stats"
    /\ UNCHANGED <<frame, noise_models, noise_range, original_key, mi, pj,
                   adaps, adaptive_matrix, model_gains, nk, q, ent, ada>>

\* Lines 101-153: the figure and the summary.  noise_range[-1] at line 122
\* raises IndexError on an empty grid.
Present ==
    /\ pc = "stats"
    /\ IF noise_range = <<>>
       THEN /\ stats' = [stats EXCEPT !.error = "IndexError"]
            /\ pc' = "raised"
       ELSE LET m == Len(adaptive_matrix)
                g == Len(noise_range)
                over == [j \in 1..g |->
                           Sum(Column(adaptive_matrix, j)) - m * static_baseline]
            IN  /\ stats' = [error |-> "none",
                             mean_adaptive |-> stats.mean_adaptive,
                             min_adaptive |-> stats.min_adaptive,
                             max_adaptive |-> stats.max_adaptive,
                             best_model |-> stats.best_model,
                             worst_model |-> stats.worst_model,
                             best_gain |-> stats.best_gain,
                             worst_gain |-> stats.worst_gain,
                             idx_best |-> IndexOf(noise_models, stats.best_model),
                             idx_worst |-> IndexOf(noise_models, stats.worst_model),
                             avg_gain |-> Float(Sum(over), m * g),
                             gain_at_max |-> Float(over[g], m)]
                /\ pc' = "done"
    /\ UNCHANGED <<frame, noise_models, noise_range, original_key, mi, pj,
                   adaps, adaptive_matrix, model_gains, nk, q, ent, ada>>

Next == SweepPoint \/ SweepModel \/ Aggregate \/ Present

Spec == Init /\ [][Next]_vars

\* The same program started with an empty model list or an empty grid.
InitAnyInput ==
    /\ noise_models \in ModelLists \cup {<<>>}
    /\ noise_range \in {Linspace(n) : n \in 0..GridLen}
    /\ original_key \in SweepKeys
    /\ SweepStart

SpecAnyInput == InitAnyInput /\ [][Next]_vars

-----------------------------------------------------------------------------
(* Properties of apply_noise, under SpecUnits. *)

InNoise == frame.fn = "apply_noise"
Returned == frame.at = "return"
KeyPrefix == SubSeq(frame.key, 1, frame.i)

\* C1: apply_noise returns a key exactly as long as its input, for every
\* key, probability, model name (recognized or not) and random draws: each
\* iteration appends one symbol, so the key returned has len(key) symbols.
C1_LengthPreserved ==
    InNoise =>
        /\ Len(frame.noisy) = frame.i
        /\ Returned => Len(frame.noisy) = Len(frame.key)

C1_Witness ==
    /\ InNoise
    /\ Returned
    /\ Len(frame.key) = MaxLen
    /\ frame.model \in Unrecognized
    /\ frame.p = Scale

PassThroughModels ==
    {"Phase Flip", "Phase Damping", "Photon Number Splitting"}
    \cup Unrecognized

\* C2: under Phase Flip, Phase Damping, Photon Number Splitting and every
\* unrecognized name, apply_noise returns the input key symbol for symbol,
\* for every probability and every draw.
C2_PassThrough ==
    InNoise /\ frame.model \in PassThroughModels =>
        /\ frame.noisy = KeyPrefix
        /\ Returned => frame.noisy = frame.key

C2_Witness ==
    /\ InNoise
    /\ Returned
    /\ frame.model = "Photon Number Splitting"
    /\ frame.p = Scale
    /\ frame.key = [n \in 1..MaxLen |-> "1"]

ZeroSafeModels ==
    {"Bit Flip", "Depolarizing", "Amplitude Damping",
     "Generalized Amplitude Damping", "Non-Markovian",
     "Polarization Mode Dispersion", "Photon Number Splitting",
     "Gaussian Bosonic"}

\* C3: with p = 0 the key returned equals the input key under Bit Flip,
\* Depolarizing, Amplitude Damping, Generalized Amplitude Damping,
\* Non-Markovian, Polarization Mode Dispersion and Photon Number Splitting
\* for every uniform draw, and under Gaussian Bosonic as long as no normal
\* sample drawn was positive.
C3_ZeroProbability ==
    (/\ InNoise
     /\ frame.p = 0
     /\ frame.model \in ZeroSafeModels
     /\ ~frame.gpos) =>
        /\ frame.noisy = KeyPrefix
        /\ Returned => frame.noisy = frame.key

C3_Witness ==
    /\ InNoise
    /\ Returned
    /\ frame.p = 0
    /\ frame.model = "Bit Flip"
    /\ Len(frame.key) = MaxLen
    /\ frame.noisy = frame.key

-----------------------------------------------------------------------------
(* Properties of qber and adaptive_amplification, under SpecUnits. *)

QberReturned == frame.fn = "qber" /\ frame.at = "return"

\* C4: qber(k, k) is 0 for any key k, and qber(a, b) equals qber(b, a) for
\* any two keys a and b.
C4_ZeroAndSymmetric ==
    QberReturned =>
        /\ frame.orig = frame.noisy =>
               frame.result.error = "none" /\ frame.result.num = 0
        /\ SameRate(frame.result, frame.swapped)

\* C5: qber on two keys of different lengths fails with a length-mismatch
\* error and returns no rate.
C5_LengthMismatchFails ==
    QberReturned /\ Len(frame.orig) # Len(frame.noisy) =>
        frame.result.error = "LengthMismatch"

AdaptiveReturned ==
    frame.fn = "adaptive_amplification" /\ frame.at = "return"

\* C6: adaptive_amplification returns one of 0.5, 0.6, 0.75, 1.0, never
\* returns less for a larger confidence, and a confidence equal to 0.9,
\* 0.75 or 0.6 gets 1.0, 0.75 or 0.6.
C6_AdaptiveMonotone ==
    AdaptiveReturned =>
        /\ frame.r1 \in {50, 60, 75, 100}
        /\ frame.c1 <= frame.c2 => frame.r1 <= frame.r2
        /\ 10 * frame.c1 = 9 * One => frame.r1 = 100
        /\ 4 * frame.c1 = 3 * One => frame.r1 = 75
        /\ 5 * frame.c1 = 3 * One => frame.r1 = 60

C6_Witness ==
    /\ AdaptiveReturned
    /\ 5 * frame.c1 = 3 * One
    /\ 4 * frame.c2 = 3 * One
    /\ frame.r1 = 60
    /\ frame.r2 = 75

-----------------------------------------------------------------------------
(* Properties of the sweep, under Spec. *)

Swept == pc \in {"stats", "done"}

AtLeast(a, b) == ~a.nan /\ ~b.nan /\ a.num * b.den >= b.num * a.den

\* C7: after a sweep best_model's gain is >= every model's gain and
\* worst_model's gain is <= every model's gain, and among the models with
\* the largest (smallest) gain best_model (worst_model) is the first of the
\* model list.
C7_BestAndWorst ==
    Swept =>
        \A n \in 1..Len(model_gains) :
            LET item == model_gains[n]
                at == IndexOf(noise_models, item.model)
            IN  /\ AtLeast(stats.best_gain, item.gain)
                /\ AtLeast(item.gain, stats.worst_gain)
                /\ item.model = stats.best_model =>
                       item.gain = stats.best_gain
                /\ item.model = stats.worst_model =>
                       item.gain = stats.worst_gain
                /\ AtLeast(item.gain, stats.best_gain) =>
                       IndexOf(noise_models, stats.best_model) <= at
                /\ AtLeast(stats.worst_gain, item.gain) =>
                       IndexOf(noise_models, stats.worst_model) <= at

C7_Witness ==
    /\ pc = "done"
    /\ Len(model_gains) = MaxModels
    /\ noise_models[1] = "Depolarizing"
    /\ \A n \in 1..Len(model_gains) :
           model_gains[n].gain = model_gains[1].gain
    /\ model_gains[1].gain.num < (key_length - static_baseline) * Len(noise_range)
    /\ stats.best_model = noise_models[1]
    /\ stats.worst_model = noise_models[1]

Fractions == {50, 60, 75, 100}

IsFloorOf(count, fraction) ==
    /\ 100 * count <= key_length * fraction
    /\ key_length * fraction < 100 * (count + 1)

Cells ==
    {adaps[j] : j \in 1..Len(adaps)} \cup
    UNION {{adaptive_matrix[n][j] : j \in 1..Len(adaptive_matrix[n])} :
              n \in 1..Len(adaptive_matrix)}

\* C8: every RetainedBitCount put in a ModelCurve is
\* floor(key_length * fraction) for the fraction adaptive_amplification
\* chose, and is an integer in [0, key_length].
C8_RetainedCount ==
    /\ pc = "loop" /\ pj > 1 =>
           /\ adaps[pj - 1] = ada
           /\ IsFloorOf(ada, adaptive_amplification(ent))
    /\ \A cell \in Cells :
           /\ cell \in 0..key_length
           /\ \E fraction \in Fractions : IsFloorOf(cell, fraction)

C8_Witness ==
    /\ pc = "loop"
    /\ pj > 1
    /\ adaptive_amplification(ent) = 60
    /\ 100 * ada < key_length * 60
    /\ adaps[pj - 1] = ada

\* C10: no RetainedBitCount of a sweep is below the static baseline
\* floor(key_length / 2), so every model's average gain is >= 0, and it is
\* at most key_length - floor(key_length / 2).
C10_NeverBelowBaseline ==
    /\ \A cell \in Cells : cell >= static_baseline
    /\ \A n \in 1..Len(model_gains) :
           LET gain == model_gains[n].gain
           IN  /\ ~gain.nan
               /\ gain.num >= 0
               /\ gain.num <= (key_length - static_baseline) * gain.den

C10_Witness ==
    /\ pc = "done"
    /\ Len(model_gains) = MaxModels
    /\ stats.worst_gain.num = 0
    /\ stats.best_gain.num = (key_length - static_baseline) * stats.best_gain.den

-----------------------------------------------------------------------------
(* The sweep on an empty input, under SpecAnyInput. *)

EmptyInput == noise_models = <<>> \/ noise_range = <<>>

\* C9: a sweep with an empty grid or an empty model list fails with an
\* InvalidInput error before any statistic (a model gain, the best or worst
\* model, a mean, min or max curve) is computed.
C9_EmptyInputRejected ==
    EmptyInput =>
        /\ model_gains = <<>>
        /\ DOMAIN stats = {"error"}
        /\ stats.error \in {"none", "InvalidInput"}
        /\ pc \in {"loop", "raised"}
        /\ pc = "raised" => stats.error = "InvalidInput"

====
